---- MODULE Spec2Model ----
(***************************************************************************)
(* A model of deep_qa's AttentionPretrainer                                *)
(* (src/main/python/deep_qa/solvers/pretraining/attention_pretrainer.py):  *)
(* the save / force / restore of the trainer's hard_selection setting, the *)
(* data preparation, the vocabulary fitting and the construction of the    *)
(* attention-only model.  One trainer is shared by all the pretrainers.    *)
(***************************************************************************)
EXTENDS Integers, Sequences, FiniteSets, TLC

(***************************************************************************)
(* Bounds of the model.                                                    *)
(***************************************************************************)
NumPretrainers == 2
MaxLayers == 2
MaxWrap == 2
MaxKnowledgeLength == 2
MaxSentenceLength == 2
MaxInstances == 2
MaxFields == 2

Pretrainers == 1..NumPretrainers
LayerNums == 0..(MaxLayers - 1)
Words == {"a", "b"}
Sentences == {<<"a">>, <<"b", "a">>}

VARIABLES
    \* ---- the trainer (one object, shared) ----
    trainer_class,               \* the class of the trainer object
    knowledge_selector_params,   \* dict: a function on the keys present
    knowledge_selector_layers,   \* dict: layer number -> selector layer
    data_indexer,                \* the word dictionary, in order of insertion
    encoder_wrap,                \* TimeDistributed wrappers around the sentence encoder
    selector_wrap,               \* TimeDistributed wrappers around a knowledge selector
    max_knowledge_length,
    max_sentence_length,
    \* ---- the files and the probe inputs ----
    train_files,                 \* the labeled instances the two train files hold
    sentence_input,              \* one question fed to the built model
    background_input,            \* its background sentences
    \* ---- the pretrainers ----
    pc,                          \* where each pretrainer is in its life
    _old_hard_attention_setting, \* dict: pretrainer -> saved flag
    fitted,                      \* the pretrainers whose fit_data_indexer() ran
    dataset,                     \* dict: pretrainer -> loaded dataset
    prepared,                    \* dict: pretrainer -> outcome of _prepare_data
    model,                       \* dict: pretrainer -> built model
    \* ---- history ----
    hard_selection_before,       \* dict: pretrainer -> the flag as read before construction
    active_at_construction,      \* dict: pretrainer -> pretrainers active when it was built
    original_hard_selection      \* the flag as read in the initial state

trainer_vars == <<trainer_class, knowledge_selector_params, knowledge_selector_layers,
                  data_indexer, encoder_wrap, selector_wrap, max_knowledge_length,
                  max_sentence_length>>
input_vars == <<train_files, sentence_input, background_input>>
pretrainer_vars == <<pc, _old_hard_attention_setting, fitted, dataset, prepared, model>>
history_vars == <<hard_selection_before, active_at_construction, original_hard_selection>>
vars == <<trainer_vars, input_vars, pretrainer_vars, history_vars>>

(***************************************************************************)
(* Python dicts are functions on the set of keys present.                  *)
(***************************************************************************)
Get(d, key, default) == IF key \in DOMAIN d THEN d[key] ELSE default

Put(d, key, value) ==
    [k \in DOMAIN d \cup {key} |-> IF k = key THEN value ELSE d[k]]

EmptyDict == [k \in {} |-> 0]

\* How the hard_selection setting reads: absent reads as the default, False.
HardSelection(params) == Get(params, "hard_selection", FALSE)

Active == {p \in Pretrainers : pc[p] = "active"}

(***************************************************************************)
(* The trainer.  isinstance(trainer, MemoryNetworkSolver) holds of the     *)
(* class itself and of its subclasses; TrueFalseSolver is a TextTrainer    *)
(* that is not one.  The other attributes are whatever the object carries. *)
(***************************************************************************)
TrainerClasses == {"MemoryNetworkSolver", "TrueFalseSolver"}

IsMemoryNetworkSolver(class) == class \in {"MemoryNetworkSolver"}

ParamsSet ==
    {EmptyDict,
     [hard_selection |-> TRUE], [hard_selection |-> FALSE],
     [type |-> "parameterized"],
     [hard_selection |-> TRUE, type |-> "parameterized"],
     [hard_selection |-> FALSE, type |-> "parameterized"]}

\* A selector layer takes its attributes from the parameters it is built from.
NewSelector(params, layer_num) ==
    [hard_selection |-> HardSelection(params),
     type |-> Get(params, "type", "dot_product"),
     name |-> layer_num]

\* trainer._get_knowledge_selector(layer_num): the layer of that number, built
\* from the current parameters when it does not exist yet.
_get_knowledge_selector(layers, params, layer_num) ==
    IF layer_num \in DOMAIN layers
    THEN layers
    ELSE Put(layers, layer_num, NewSelector(params, layer_num))

\* The layers a trainer holds after building its first n selectors.
RECURSIVE LayersBuilt(_, _)
LayersBuilt(params, n) ==
    IF n = 0
    THEN EmptyDict
    ELSE _get_knowledge_selector(LayersBuilt(params, n - 1), params, n - 1)

(***************************************************************************)
(* AttentionPretrainer.__init__ and on_finished.                           *)
(***************************************************************************)
\* A variant that mutates the trainer before it checks its class.
InitChecksLate(p) ==
    /\ knowledge_selector_params' =
           Put(knowledge_selector_params, "hard_selection", FALSE)
    /\ IF ~IsMemoryNetworkSolver(trainer_class)
       THEN /\ pc' = [pc EXCEPT ![p] = "config_error"]
            /\ UNCHANGED <<_old_hard_attention_setting, knowledge_selector_layers>>
       ELSE /\ pc' = [pc EXCEPT ![p] = "active"]
            /\ _old_hard_attention_setting' =
                   Put(_old_hard_attention_setting, p,
                       Get(knowledge_selector_params, "hard_selection", FALSE))
            /\ UNCHANGED knowledge_selector_layers

\* A variant that saves the setting and leaves it as it is.
InitKeepsSetting(p) ==
    IF ~IsMemoryNetworkSolver(trainer_class)
    THEN /\ pc' = [pc EXCEPT ![p] = "config_error"]
         /\ UNCHANGED <<_old_hard_attention_setting, knowledge_selector_params,
                        knowledge_selector_layers>>
    ELSE /\ pc' = [pc EXCEPT ![p] = "active"]
         /\ _old_hard_attention_setting' =
                Put(_old_hard_attention_setting, p,
                    Get(knowledge_selector_params, "hard_selection", FALSE))
         /\ UNCHANGED <<knowledge_selector_params, knowledge_selector_layers>>

__init__(p) ==
    IF ~IsMemoryNetworkSolver(trainer_class)
    THEN \* raise ConfigurationError
         /\ pc' = [pc EXCEPT ![p] = "config_error"]
         /\ UNCHANGED <<_old_hard_attention_setting, knowledge_selector_params,
                        knowledge_selector_layers>>
    ELSE /\ pc' = [pc EXCEPT ![p] = "active"]
         /\ _old_hard_attention_setting' =
                Put(_old_hard_attention_setting, p,
                    Get(knowledge_selector_params, "hard_selection", FALSE))
         /\ knowledge_selector_params' =
                Put(knowledge_selector_params, "hard_selection", FALSE)
         /\ UNCHANGED knowledge_selector_layers

\* A variant that restores the parameters and not the layers.
OnFinishedSkipsLayers(p) ==
    /\ knowledge_selector_params' =
           Put(knowledge_selector_params, "hard_selection",
               _old_hard_attention_setting[p])
    /\ pc' = [pc EXCEPT ![p] = "finished"]
    /\ UNCHANGED <<knowledge_selector_layers, _old_hard_attention_setting>>

\* A variant that replaces the parameters by a fresh dict.
OnFinishedResetsParams(p) ==
    /\ knowledge_selector_params' =
           [hard_selection |-> _old_hard_attention_setting[p]]
    /\ knowledge_selector_layers' =
           [n \in DOMAIN knowledge_selector_layers |->
               [knowledge_selector_layers[n] EXCEPT
                   !.hard_selection = _old_hard_attention_setting[p]]]
    /\ pc' = [pc EXCEPT ![p] = "finished"]
    /\ UNCHANGED _old_hard_attention_setting

on_finished(p) ==
    /\ knowledge_selector_params' =
           Put(knowledge_selector_params, "hard_selection",
               _old_hard_attention_setting[p])
    /\ knowledge_selector_layers' =
           [n \in DOMAIN knowledge_selector_layers |->
               [knowledge_selector_layers[n] EXCEPT
                   !.hard_selection = _old_hard_attention_setting[p]]]
    /\ pc' = [pc EXCEPT ![p] = "finished"]
    /\ UNCHANGED _old_hard_attention_setting

\* A caller constructs a pretrainer around the trainer.
Construct(p) ==
    /\ pc[p] = "new"
    /\ __init__(p)
    /\ hard_selection_before' =
           Put(hard_selection_before, p, HardSelection(knowledge_selector_params))
    /\ active_at_construction' = Put(active_at_construction, p, Active)
    /\ UNCHANGED <<trainer_class, data_indexer, encoder_wrap, selector_wrap,
                   max_knowledge_length, max_sentence_length, input_vars,
                   fitted, dataset, prepared, model, original_hard_selection>>

\* The driver runs the completion hook.
Finish(p) ==
    /\ pc[p] = "active"
    /\ on_finished(p)
    /\ UNCHANGED <<trainer_class, data_indexer, encoder_wrap, selector_wrap,
                   max_knowledge_length, max_sentence_length, input_vars,
                   fitted, dataset, prepared, model, history_vars>>

\* A failure raised while pretraining (a missing file, a shape error, a failed
\* training run) propagates to the caller: the completion hook does not run.
Fail(p) ==
    /\ pc[p] = "active"
    /\ pc' = [pc EXCEPT ![p] = "aborted"]
    /\ UNCHANGED <<trainer_vars, input_vars, _old_hard_attention_setting,
                   fitted, dataset, prepared, model, history_vars>>

\* The trainer builds one more of its own selector layers.
BuildSelector(n) ==
    /\ IsMemoryNetworkSolver(trainer_class)
    /\ n \notin DOMAIN knowledge_selector_layers
    /\ knowledge_selector_layers' =
           _get_knowledge_selector(knowledge_selector_layers,
                                   knowledge_selector_params, n)
    /\ UNCHANGED <<trainer_class, knowledge_selector_params, data_indexer,
                   encoder_wrap, selector_wrap, max_knowledge_length,
                   max_sentence_length, input_vars, pretrainer_vars, history_vars>>

(***************************************************************************)
(* Datasets.  The train file holds the instances' inputs (one sentence per *)
(* input field), the background file the labeled attention of each.        *)
(***************************************************************************)
SeqsUpTo(S, n) == UNION {[1..m -> S] : m \in 0..n}

\* The attention labels over a background of n sentences.
Labels(n) == {[i \in 1..n |-> IF i = j THEN 1 ELSE 0] : j \in 1..n}

\* The file pairs that hold up to n instances of k input fields each.
FilePairs(k, n, knowledge_length) ==
    UNION {[train : [1..m -> [1..k -> Sentences]],
            background : [1..m -> Labels(knowledge_length)]] : m \in 0..n}

\* TextDataset.read_from_file, then read_labeled_background_from_file: each
\* instance of the train file with the labeled attention of the same position.
ReadLabeledBackground(files) ==
    [i \in 1..Len(files.train) |->
        [inputs |-> files.train[i], label |-> files.background[i]]]

_load_dataset_from_files(files) == ReadLabeledBackground(files)

\* The words of a sequence of sentences, in order.
RECURSIVE Flatten(_)
Flatten(sentences) ==
    IF sentences = <<>> THEN <<>> ELSE Head(sentences) \o Flatten(Tail(sentences))

\* The words of the instances' input fields (the labels hold no words).
RECURSIVE DatasetWords(_)
DatasetWords(instances) ==
    IF instances = <<>>
    THEN <<>>
    ELSE Flatten(Head(instances).inputs) \o DatasetWords(Tail(instances))

\* DataIndexer: index 0 is padding, index 1 the unknown word, and the n-th word
\* added has index n + 1.
InIndexer(indexer, word) == \E i \in 1..Len(indexer) : indexer[i] = word

WordIndex(indexer, word) ==
    IF InIndexer(indexer, word)
    THEN 1 + CHOOSE i \in 1..Len(indexer) : indexer[i] = word
    ELSE 1

RECURSIVE AddWords(_, _)
AddWords(indexer, words) ==
    IF words = <<>>
    THEN indexer
    ELSE AddWords(IF InIndexer(indexer, Head(words))
                  THEN indexer
                  ELSE Append(indexer, Head(words)),
                  Tail(words))

fit_word_dictionary(indexer, instances) == AddWords(indexer, DatasetWords(instances))

IndexSentence(indexer, sentence) ==
    [i \in 1..Len(sentence) |-> WordIndex(indexer, sentence[i])]

\* Padding on the left with index 0, truncation on the left.
PadSentence(indices, length) ==
    IF Len(indices) >= length
    THEN SubSeq(indices, Len(indices) - length + 1, Len(indices))
    ELSE [i \in 1..(length - Len(indices)) |-> 0] \o indices

Ndarray(rows) == [type |-> "ndarray", rows |-> rows]
Tuple(items) == [type |-> "tuple", items |-> items]

\* numpy.asarray of a list of arrays: the array whose i-th row is the i-th one.
Asarray(arrays) == Ndarray([i \in 1..Len(arrays) |-> arrays[i].rows])

\* zip(*tuples): the j-th result holds field j of every tuple, in order; it
\* stops at the shortest tuple.
MinLen(tuples) ==
    CHOOSE m \in {Len(tuples[i].items) : i \in 1..Len(tuples)} :
        \A i \in 1..Len(tuples) : m <= Len(tuples[i].items)

Zip(tuples) ==
    [j \in 1..MinLen(tuples) |-> [i \in 1..Len(tuples) |-> tuples[i].items[j]]]

\* to_indexed_instance, pad and as_training_data of one instance: one array
\* when it has a single input field, a tuple of arrays otherwise.
IndexedFields(indexer, instance, length) ==
    [j \in 1..Len(instance.inputs) |->
        Ndarray(PadSentence(IndexSentence(indexer, instance.inputs[j]), length))]

AsTrainingData(indexer, instance, length) ==
    [inputs |-> IF Len(instance.inputs) = 1
                THEN IndexedFields(indexer, instance, length)[1]
                ELSE Tuple(IndexedFields(indexer, instance, length)),
     label |-> Ndarray(instance.label)]

(***************************************************************************)
(* AttentionPretrainer._prepare_data: what it returns, or what it raises.  *)
(***************************************************************************)
_prepare_data(instances, indexer, length) ==
    LET training == [i \in 1..Len(instances) |->
                        AsTrainingData(indexer, instances[i], length)]
        inputs == [i \in 1..Len(training) |-> training[i].inputs]
        labels == [i \in 1..Len(training) |-> training[i].label]
    IN  IF Len(inputs) = 0
        THEN [raised |-> "IndexError"]
        ELSE [raised |-> "",
              inputs |-> IF inputs[1].type = "tuple"
                         THEN [j \in 1..MinLen(inputs) |-> Asarray(Zip(inputs)[j])]
                         ELSE Asarray(inputs),
              labels |-> Asarray(labels)]

\* A variant that loads the dataset and does not fit the dictionary on it.
FitDataIndexerForgetsToFit(indexer, files) == indexer

\* AttentionPretrainer.fit_data_indexer: the dictionary after it ran.
fit_data_indexer(indexer, files) ==
    fit_word_dictionary(indexer, _load_dataset_from_files(files))

FitDataIndexer(p) ==
    /\ pc[p] = "active"
    /\ p \notin fitted
    /\ data_indexer' = fit_data_indexer(data_indexer, train_files)
    /\ fitted' = fitted \cup {p}
    /\ UNCHANGED <<trainer_class, knowledge_selector_params, knowledge_selector_layers,
                   encoder_wrap, selector_wrap, max_knowledge_length,
                   max_sentence_length, input_vars, pc, _old_hard_attention_setting,
                   dataset, prepared, model, history_vars>>

LoadDataset(p) ==
    /\ pc[p] = "active"
    /\ p \notin DOMAIN dataset
    /\ dataset' = Put(dataset, p, _load_dataset_from_files(train_files))
    /\ UNCHANGED <<trainer_vars, input_vars, pc, _old_hard_attention_setting,
                   fitted, prepared, model, history_vars>>

\* The driver fits the word dictionary before it indexes anything.
FitBeforeIndexing(p) == p \in fitted

\* The driver prepares the loaded dataset; a failure raised there ends the run.
PrepareData(p) ==
    /\ pc[p] = "active"
    /\ p \in DOMAIN dataset
    /\ p \notin DOMAIN prepared
    /\ FitBeforeIndexing(p)
    /\ prepared' = Put(prepared, p,
                       _prepare_data(dataset[p], data_indexer, max_sentence_length))
    /\ pc' = [pc EXCEPT ![p] = IF prepared'[p].raised = "" THEN "active" ELSE "aborted"]
    /\ UNCHANGED <<trainer_vars, input_vars, _old_hard_attention_setting,
                   fitted, dataset, model, history_vars>>

(***************************************************************************)
(* Layers.  A TimeDistributed layer wraps another layer and applies it to  *)
(* every item of its input; any other layer is applied to its input whole. *)
(***************************************************************************)
RECURSIVE Wrap(_, _)
Wrap(layer, wrappers) ==
    IF wrappers = 0
    THEN layer
    ELSE [kind |-> "TimeDistributed", layer |-> Wrap(layer, wrappers - 1)]

TimeDistributed(layer) == Wrap(layer, 1)

RECURSIVE Call(_, _)
Call(layer, input) ==
    IF layer.kind = "TimeDistributed"
    THEN [i \in DOMAIN input |-> Call(layer.layer, input[i])]
    ELSE [by |-> layer, of |-> input]

\* trainer._get_sentence_encoder() and the layer _get_knowledge_selector returns.
_get_sentence_encoder(wrappers) ==
    Wrap([kind |-> "Encoder", layer |-> "sentence_encoder"], wrappers)

SelectorLayer(layer_num, wrappers) ==
    Wrap([kind |-> "KnowledgeSelector", layer |-> layer_num], wrappers)

\* trainer._get_embedded_sentence_input: the embedding of the words fed in.
Embedding(sentence) == [embedded |-> sentence]

(***************************************************************************)
(* AttentionPretrainer._build_model.                                       *)
(***************************************************************************)
\* A variant with an if where the code has a while.
UnwrapSentenceEncoderOnce(sentence_encoder, steps) ==
    IF sentence_encoder.kind = "TimeDistributed"
    THEN [layer |-> sentence_encoder.layer, steps |-> steps + 1]
    ELSE [layer |-> sentence_encoder, steps |-> steps]

\* while isinstance(sentence_encoder, TimeDistributed): ... = ....layer
RECURSIVE UnwrapSentenceEncoder(_, _)
UnwrapSentenceEncoder(sentence_encoder, steps) ==
    IF sentence_encoder.kind = "TimeDistributed"
    THEN UnwrapSentenceEncoder(sentence_encoder.layer, steps + 1)
    ELSE [layer |-> sentence_encoder, steps |-> steps]

\* while isinstance(knowledge_selector, TimeDistributed): ... = ....layer
RECURSIVE UnwrapKnowledgeSelector(_, _)
UnwrapKnowledgeSelector(knowledge_selector, steps) ==
    IF knowledge_selector.kind = "TimeDistributed"
    THEN UnwrapKnowledgeSelector(knowledge_selector.layer, steps + 1)
    ELSE [layer |-> knowledge_selector, steps |-> steps]

\* K.expand_dims(x, dim=1) and K.concatenate(..., axis=1), for one sample.
ExpandDims(tensor) == <<tensor>>

Concatenate(tensors) == tensors[1] \o tensors[2]

\* A variant that puts the background first.
MergeModeBackgroundFirst(layer_outs) ==
    Concatenate(<<layer_outs[2], ExpandDims(layer_outs[1])>>)

merge_mode(layer_outs) == Concatenate(<<ExpandDims(layer_outs[1]), layer_outs[2]>>)

\* Dropout keeps the positions of its input.
Dropout(tensor) == [i \in DOMAIN tensor |-> [dropout |-> tensor[i]]]

_build_model(encoder_wrappers, selector_wrappers, knowledge_length, sentence_length, sentence, background) ==
    LET sentence_embedding == Embedding(sentence)
        background_embedding ==
            [i \in 1..knowledge_length |-> Embedding(background[i])]
        encoder == UnwrapSentenceEncoder(_get_sentence_encoder(encoder_wrappers), 0)
        sentence_encoder == encoder.layer
        background_encoder == TimeDistributed(sentence_encoder)
        encoded_sentence == Call(sentence_encoder, sentence_embedding)
        encoded_background == Call(background_encoder, background_embedding)
        merged_encoded_rep == merge_mode(<<encoded_sentence, encoded_background>>)
        regularized_merged_rep == Dropout(merged_encoded_rep)
        selector == UnwrapKnowledgeSelector(SelectorLayer(0, selector_wrappers), 0)
        knowledge_selector == selector.layer
    IN  [sentence_encoder |-> sentence_encoder,
         encoder_steps |-> encoder.steps,
         knowledge_selector |-> knowledge_selector,
         selector_steps |-> selector.steps,
         encoded_sentence |-> encoded_sentence,
         encoded_background |-> encoded_background,
         merged_encoded_rep |-> merged_encoded_rep,
         output_shape |-> <<knowledge_length + 1, sentence_length>>,
         attention_weights |-> Call(knowledge_selector, regularized_merged_rep)]

BuildModel(p) ==
    /\ pc[p] = "active"
    /\ p \notin DOMAIN model
    /\ knowledge_selector_layers' =
           _get_knowledge_selector(knowledge_selector_layers,
                                   knowledge_selector_params, 0)
    /\ model' = Put(model, p,
                    _build_model(encoder_wrap, selector_wrap, max_knowledge_length,
                                 max_sentence_length, sentence_input, background_input))
    /\ UNCHANGED <<trainer_class, knowledge_selector_params, data_indexer,
                   encoder_wrap, selector_wrap, max_knowledge_length,
                   max_sentence_length, input_vars, pc, _old_hard_attention_setting,
                   fitted, dataset, prepared, history_vars>>

(***************************************************************************)
(* The specifications.                                                     *)
(*   Spec      several pretrainers around one trainer: their construction, *)
(*             model building and end, in any interleaving.                *)
(*   SpecRun   one pretrainer and every operation a driver runs on it.     *)
(*   SpecData  one pretrainer's data operations, over every pair of files. *)
(*   SpecModel one pretrainer's model, over every shape of the layers.     *)
(***************************************************************************)
InitPretrainers ==
    /\ pc = [p \in Pretrainers |-> "new"]
    /\ _old_hard_attention_setting = EmptyDict
    /\ fitted = {}
    /\ dataset = EmptyDict
    /\ prepared = EmptyDict
    /\ model = EmptyDict
    /\ hard_selection_before = EmptyDict
    /\ active_at_construction = EmptyDict
    /\ original_hard_selection = HardSelection(knowledge_selector_params)

InitTrainer ==
    /\ trainer_class \in TrainerClasses
    /\ knowledge_selector_params \in ParamsSet
    /\ knowledge_selector_layers \in
           {LayersBuilt(knowledge_selector_params, n) : n \in 0..MaxLayers}
    /\ data_indexer = <<>>
    /\ encoder_wrap = 1
    /\ selector_wrap = 0
    /\ max_knowledge_length = 1
    /\ max_sentence_length = MaxSentenceLength
    /\ sentence_input = <<"a">>
    /\ background_input = [i \in 1..max_knowledge_length |-> <<"b", "a">>]

Init ==
    /\ InitTrainer
    /\ train_files \in FilePairs(2, 0, max_knowledge_length)
    /\ InitPretrainers

Next ==
    \/ \E p \in Pretrainers :
          \/ Construct(p)
          \/ BuildModel(p)
          \/ Finish(p)
          \/ Fail(p)
    \/ \E n \in LayerNums : BuildSelector(n)

Spec == Init /\ [][Next]_vars

InitRun ==
    /\ InitTrainer
    /\ train_files \in FilePairs(2, 1, max_knowledge_length)
    /\ InitPretrainers

NextRun ==
    \/ Construct(1)
    \/ FitDataIndexer(1)
    \/ LoadDataset(1)
    \/ PrepareData(1)
    \/ BuildModel(1)
    \/ Finish(1)
    \/ Fail(1)
    \/ \E n \in LayerNums : BuildSelector(n)

SpecRun == InitRun /\ [][NextRun]_vars

InitData ==
    /\ trainer_class = "MemoryNetworkSolver"
    /\ knowledge_selector_params = [hard_selection |-> TRUE]
    /\ knowledge_selector_layers = EmptyDict
    /\ data_indexer \in {<<>>, <<"a">>}
    /\ encoder_wrap = 0
    /\ selector_wrap = 0
    /\ max_knowledge_length \in 1..MaxKnowledgeLength
    /\ max_sentence_length = MaxSentenceLength
    /\ train_files \in UNION {FilePairs(k, MaxInstances, max_knowledge_length) :
                                 k \in 1..MaxFields}
    /\ sentence_input = <<"a">>
    /\ background_input = [i \in 1..max_knowledge_length |-> <<"a">>]
    /\ InitPretrainers

NextData ==
    \/ Construct(1)
    \/ FitDataIndexer(1)
    \/ LoadDataset(1)
    \/ PrepareData(1)

SpecData == InitData /\ [][NextData]_vars

InitModel ==
    /\ trainer_class = "MemoryNetworkSolver"
    /\ knowledge_selector_params \in {EmptyDict, [hard_selection |-> TRUE]}
    /\ knowledge_selector_layers = EmptyDict
    /\ data_indexer = <<>>
    /\ encoder_wrap \in 0..MaxWrap
    /\ selector_wrap \in 0..MaxWrap
    /\ max_knowledge_length \in 1..MaxKnowledgeLength
    /\ max_sentence_length = MaxSentenceLength
    /\ train_files \in FilePairs(1, 0, max_knowledge_length)
    /\ sentence_input \in Sentences
    /\ background_input \in [1..max_knowledge_length -> Sentences]
    /\ InitPretrainers

NextModel ==
    \/ Construct(1)
    \/ BuildModel(1)

SpecModel == InitModel /\ [][NextModel]_vars

(***************************************************************************)
(* The properties.                                                         *)
(***************************************************************************)
ConstructionStep(p) == pc[p] = "new" /\ pc'[p] # "new"
OnFinishedStep(p) == pc[p] = "active" /\ pc'[p] = "finished"

AllLayersRead(layers, value) ==
    \A n \in DOMAIN layers : layers[n].hard_selection = value

\* No other pretrainer's life overlaps that of p.
SoleOwner(p) ==
    /\ p \in DOMAIN active_at_construction
    /\ active_at_construction[p] = {}
    /\ \A q \in DOMAIN active_at_construction : p \notin active_at_construction[q]

\* C1: when a pretrainer's on_finished() has run, hard_selection reads as it
\* did before that pretrainer was constructed, in knowledge_selector_params
\* and on every layer then held in knowledge_selector_layers.
C1_RestoredByOnFinished ==
    [][\A p \in Pretrainers :
          OnFinishedStep(p) =>
              /\ HardSelection(knowledge_selector_params') = hard_selection_before[p]
              /\ AllLayersRead(knowledge_selector_layers', hard_selection_before[p])]_vars

\* A pretrainer around a trainer that read True has built a model, so that the
\* first selector exists, and has finished: everything reads True.
C1_Witness ==
    \E p \in Pretrainers :
        /\ pc[p] = "finished"
        /\ p \in DOMAIN model
        /\ hard_selection_before[p]
        /\ original_hard_selection
        /\ knowledge_selector_layers # EmptyDict
        /\ AllLayersRead(knowledge_selector_layers, TRUE)
        /\ HardSelection(knowledge_selector_params)

\* C2: constructing a pretrainer around a trainer that is no
\* MemoryNetworkSolver ends in a ConfigurationError, yields no pretrainer and
\* leaves the trainer as it was.
C2_ConfigurationErrorMutatesNothing ==
    [][\A p \in Pretrainers :
          (ConstructionStep(p) /\ ~IsMemoryNetworkSolver(trainer_class)) =>
              /\ pc'[p] = "config_error"
              /\ p \notin DOMAIN _old_hard_attention_setting'
              /\ trainer_vars' = trainer_vars]_vars

C2_Witness ==
    \E p \in Pretrainers :
        /\ pc[p] = "config_error"
        /\ trainer_class = "TrueFalseSolver"
        /\ HardSelection(knowledge_selector_params)
        /\ knowledge_selector_layers # EmptyDict

\* C3: while a pretrainer is between its construction and its on_finished()
\* and no other pretrainer shares the trainer, hard_selection is set to False
\* in knowledge_selector_params, whatever operations the pretrainer has run.
C3_DisabledWhilePretraining ==
    \A p \in Pretrainers :
        (pc[p] = "active" /\ SoleOwner(p)) =>
            /\ "hard_selection" \in DOMAIN knowledge_selector_params
            /\ HardSelection(knowledge_selector_params) = FALSE

C3_Witness ==
    \E p \in Pretrainers :
        /\ pc[p] = "active"
        /\ SoleOwner(p)
        /\ hard_selection_before[p]
        /\ p \in fitted
        /\ p \in DOMAIN prepared
        /\ p \in DOMAIN model
        /\ ~HardSelection(knowledge_selector_params)

\* C4: on every exit path of a pretraining run, a failure included,
\* hard_selection is restored to what it was before the run.
C4_RestoredOnEveryExit ==
    \A p \in Pretrainers :
        (pc[p] \in {"finished", "aborted"} /\ SoleOwner(p)) =>
            HardSelection(knowledge_selector_params) = hard_selection_before[p]

\* The input row of field j of instance i, as indexed and padded.
InputRow(p, i, j) ==
    PadSentence(IndexSentence(data_indexer, dataset[p][i].inputs[j]),
                max_sentence_length)

PreparedInOrder(p) ==
    LET N == Len(dataset[p])
        k == Len(dataset[p][1].inputs)
        r == prepared[p]
    IN  /\ r.raised = ""
        /\ Len(r.labels.rows) = N
        /\ \A i \in 1..N : r.labels.rows[i] = train_files.background[i]
        /\ IF k = 1
           THEN /\ r.inputs.type = "ndarray"
                /\ Len(r.inputs.rows) = N
                /\ \A i \in 1..N : r.inputs.rows[i] = InputRow(p, i, 1)
           ELSE /\ Len(r.inputs) = k
                /\ \A j \in 1..k :
                      /\ r.inputs[j].type = "ndarray"
                      /\ Len(r.inputs[j].rows) = N
                      /\ \A i \in 1..N : r.inputs[j].rows[i] = InputRow(p, i, j)

\* C5: _prepare_data on a dataset of N instances returns labels of N rows and
\* inputs of N rows (one array, or one array per input field), row i being
\* that of instance i.
C5_PreparedDataInOrder ==
    \A p \in DOMAIN prepared : PreparedInOrder(p)

\* What does hold: the same, of every dataset that is not empty.
PreparedInOrderWhenNotEmpty ==
    \A p \in DOMAIN prepared :
        IF Len(dataset[p]) = 0
        THEN prepared[p].raised = "IndexError"
        ELSE PreparedInOrder(p)

\* C6: the merged representation has max_knowledge_length + 1 positions, the
\* question's encoding first and the background's encodings after it, in order.
C6_MergeQuestionFirst ==
    \A p \in DOMAIN model :
        LET m == model[p]
        IN  /\ Len(m.encoded_background) = max_knowledge_length
            /\ Len(m.merged_encoded_rep) = max_knowledge_length + 1
            /\ m.merged_encoded_rep[1] = m.encoded_sentence
            /\ \A i \in 1..max_knowledge_length :
                  m.merged_encoded_rep[i + 1] = m.encoded_background[i]

C6_Witness ==
    \E p \in DOMAIN model :
        /\ max_knowledge_length >= 2
        /\ background_input[1] # background_input[2]
        /\ sentence_input # background_input[1]
        /\ Len(model[p].merged_encoded_rep) = max_knowledge_length + 1

\* No index of the prepared inputs is that of the unknown word.
NoUnknownWord(p) ==
    LET inputs == prepared[p].inputs
    IN  IF Len(dataset[p][1].inputs) = 1
        THEN \A i \in DOMAIN inputs.rows :
                \A c \in DOMAIN inputs.rows[i] : inputs.rows[i][c] # 1
        ELSE \A j \in DOMAIN inputs :
                \A i \in DOMAIN inputs[j].rows :
                    \A c \in DOMAIN inputs[j].rows[i] : inputs[j].rows[i][c] # 1

C8_OverlapLosesSetting ==
    [][\A a, b \in Pretrainers :
          (/\ a # b
           /\ original_hard_selection
           /\ pc[a] = "finished"
           /\ OnFinishedStep(b)
           /\ active_at_construction[a] = {}
           /\ active_at_construction[b] = {a}
           /\ \A c \in Pretrainers \ {a, b} : pc[c] = "new")
          => HardSelection(knowledge_selector_params') # original_hard_selection]_vars

C8_Witness ==
    \E a, b \in Pretrainers :
        /\ a # b
        /\ original_hard_selection
        /\ pc[a] = "finished"
        /\ pc[b] = "finished"
        /\ active_at_construction[a] = {}
        /\ active_at_construction[b] = {a}
        /\ \A c \in Pretrainers \ {a, b} : pc[c] = "new"
        /\ ~HardSelection(knowledge_selector_params)

\* C9: the unwrapping loops take as many steps as there are TimeDistributed
\* wrappers, and the layers then applied are the innermost ones, which are no
\* TimeDistributed.
C9_UnwrapReachesInnermost ==
    \A p \in DOMAIN model :
        LET m == model[p]
        IN  /\ m.encoder_steps = encoder_wrap
            /\ m.selector_steps = selector_wrap
            /\ m.sentence_encoder.kind # "TimeDistributed"
            /\ m.knowledge_selector.kind # "TimeDistributed"
            /\ m.sentence_encoder = _get_sentence_encoder(0)
            /\ m.knowledge_selector = SelectorLayer(0, 0)

C9_Witness ==
    \E p \in DOMAIN model :
        /\ encoder_wrap >= 2
        /\ selector_wrap = 0
        /\ model[p].encoder_steps >= 2
        /\ model[p].selector_steps = 0

OtherParams(params) ==
    [k \in DOMAIN params \ {"hard_selection"} |-> params[k]]

\* C10: construction and on_finished() change no key of
\* knowledge_selector_params but hard_selection and leave the set of selector
\* layers as it is; construction changes no attribute of a layer.
C10_OnlyHardSelectionChanges ==
    [][\A p \in Pretrainers :
          /\ (ConstructionStep(p) \/ OnFinishedStep(p)) =>
                /\ OtherParams(knowledge_selector_params') =
                       OtherParams(knowledge_selector_params)
                /\ DOMAIN knowledge_selector_layers' = DOMAIN knowledge_selector_layers
          /\ ConstructionStep(p) =>
                knowledge_selector_layers' = knowledge_selector_layers]_vars

C10_Witness ==
    \E p \in Pretrainers :
        /\ pc[p] = "finished"
        /\ hard_selection_before[p]
        /\ "type" \in DOMAIN knowledge_selector_params
        /\ knowledge_selector_layers # EmptyDict

====
